---- MODULE Spec2Model ----
(***************************************************************************)
(* The sync_bahmni_db management command of omrs: the import of OCL        *)
(* concept and mapping records into an OpenMRS/Bahmni concept dictionary.  *)
(*                                                                         *)
(* One behaviour of Spec is one invocation of the command                   *)
(* (Command.handle) on a pre-existing database.  The database tables are   *)
(* the fields of db; the correspondence table is concepts_id_added; the    *)
(* files the command reads and writes are concept_file, mapping_file and   *)
(* files.  In SpecResume a concept import can be interrupted and invoked   *)
(* again on the database it left; in SpecRerun a concept import that has   *)
(* returned is invoked again for one concept.                              *)
(***************************************************************************)
EXTENDS Integers, Sequences, FiniteSets, TLC

VARIABLES
    db,                 \* the destination store: one field per table
    concepts_id_added,  \* self.concepts_id_added: foreign id -> local id
    files,              \* the key files on disk: path -> JSON object
    options,            \* the command line options of this invocation
    concept_file,       \* the records of --concept_file, in file order
    mapping_file,       \* the records of --mapping_file, in file order
    enumerator,         \* the records the running loop iterates over
    num,                \* how many of them the loop has processed
    pc,                 \* where the command is
    exc,                \* the exception that ended the run ("" while none)
    before,             \* history: db and concepts_id_added when the latest
                        \* record began
    first,              \* history: db when the first invocation began
    runs,               \* how many times the command has been invoked
    source_file,        \* sync_source: the records of --source_file
    importers           \* the commands that run at once on db, each with
                        \* its own files, position and local variables

vars == <<db, concepts_id_added, files, options, concept_file, mapping_file,
          enumerator, num, pc, exc, before, first, runs, source_file,
          importers>>

(***************************************************************************)
(* Bounds.                                                                 *)
(***************************************************************************)
MaxConcepts == 2      \* records in a concept file
MaxMappings == 2      \* records in a mapping file
MaxRuns == 2          \* invocations of the command on one database

\* Python's None, where a string is expected
None == <<"None">>

Max(S) == CHOOSE x \in S : \A y \in S : y <= x

Range(s) == {s[i] : i \in 1..Len(s)}

RECURSIVE SeqsUpTo(_, _)
SeqsUpTo(S, n) ==
    IF n = 0 THEN {<<>>}
    ELSE LET shorter == SeqsUpTo(S, n - 1)
         IN shorter \cup {Append(s, x) : s \in shorter, x \in S}

(***************************************************************************)
(* Python strings that the code takes apart are sequences of characters,   *)
(* so that str, int and split are computed as Python computes them.        *)
(***************************************************************************)
Digits == <<"0", "1", "2", "3", "4", "5", "6", "7", "8", "9">>

IsDigit(c) == \E d \in 1..10 : Digits[d] = c

DigitVal(c) == (CHOOSE d \in 1..10 : Digits[d] = c) - 1

\* str(n) for a non-negative integer
RECURSIVE str(_)
str(n) ==
    IF n < 10 THEN <<Digits[n + 1]>>
    ELSE str(n \div 10) \o <<Digits[(n % 10) + 1]>>

\* whether int(s) returns (it raises ValueError otherwise)
IsInt(s) == Len(s) > 0 /\ \A i \in 1..Len(s) : IsDigit(s[i])

\* int(s) for a string of decimal digits
RECURSIVE int(_)
int(s) ==
    IF Len(s) = 1 THEN DigitVal(s[1])
    ELSE 10 * int(SubSeq(s, 1, Len(s) - 1)) + DigitVal(s[Len(s)])

\* s.split(sep)
RECURSIVE split(_, _)
split(s, sep) ==
    IF \A i \in 1..Len(s) : s[i] # sep THEN <<s>>
    ELSE LET k == CHOOSE i \in 1..Len(s) :
                      s[i] = sep /\ \A j \in 1..(i - 1) : s[j] # sep
         IN <<SubSeq(s, 1, k - 1)>> \o split(SubSeq(s, k + 1, Len(s)), sep)

\* a dump of a dict whose keys are floats: 1.0 becomes "1.0"
json_dump_float_keys(data) ==
    LET float(k) == str(k) \o <<".", "0">>
        keys == {float(k) : k \in DOMAIN data}
    IN [key \in keys |-> data[CHOOSE k \in DOMAIN data : float(k) = key]]

\* json.dump of a dict with integer keys: every key becomes its str()
json_dump(data) ==
    LET keys == {str(k) : k \in DOMAIN data}
    IN [key \in keys |-> data[CHOOSE k \in DOMAIN data : str(k) = key]]

(***************************************************************************)
(* Results of a handler: the new store, the new correspondence table and   *)
(* the exception raised ("" when the handler returned).                    *)
(***************************************************************************)
Result(d, ids, e) == [db |-> d, ids |-> ids, exc |-> e]

\* "key in dict"
Has(dict, key) == key \in DOMAIN dict

\* "if x:" on an integer
Truthy(x) == x # 0

\* dict[key] = value
SetItem(dict, key, value) == (key :> value) @@ dict

\* Model.save() on a table keyed by its primary key: insert, or overwrite
\* the row that holds the key
Save(table, pk, row) == (pk :> row) @@ table

(***************************************************************************)
(* sync_concept: the concept resolver and the attribute synchronizer.      *)
(***************************************************************************)
FULLY_SPECIFIED == "FULLY_SPECIFIED"

\* ConceptName.objects.filter(name=, concept_name_type=, locale=,
\* locale_preferred=): the matching rows in primary key order
filter_concept_name(rows, cname) ==
    SelectSeq(rows, LAMBDA r : /\ r.name = cname.name
                               /\ r.concept_name_type = cname.name_type
                               /\ r.locale = cname.locale
                               /\ r.locale_preferred = cname.locale_preferred)

\* a pass of the name loop that recognises no row
match_name_blind(st, rows, concept, cname) == st

\* a pass of the name loop that keeps the concept of the first name that
\* matched, whatever the types of the names
match_name_first(st, rows, concept, cname) ==
    LET concept_name == filter_concept_name(rows, cname)
        st1 == IF st.at_lst_one THEN st
               ELSE [st EXCEPT !.con_id = concept_name[1].concept_id]
    IN IF Len(concept_name) = 0 THEN st
       ELSE [st1 EXCEPT !.at_lst_one = TRUE,
                        !.ids = SetItem(st1.ids, concept.id, st1.con_id)]

\* one pass of the loop of lines 339-364 over one name of the record;
\* st is [con_id, f_sp, at_lst_one, ids]
match_name(st, rows, concept, cname) ==
    LET concept_name == filter_concept_name(rows, cname)
        fs == {i \in 1..Len(concept_name) :
                   concept_name[i].concept_name_type = FULLY_SPECIFIED}
        st1 == IF Len(concept_name) > 1
               THEN IF fs # {}
                    THEN [st EXCEPT !.f_sp = TRUE,
                                    !.con_id = concept_name[Max(fs)].concept_id]
                    ELSE IF ~st.f_sp
                         THEN [st EXCEPT !.con_id = concept_name[1].concept_id]
                         ELSE st
               ELSE IF ~st.f_sp
                    THEN [st EXCEPT
                             !.f_sp = (concept_name[1].concept_name_type
                                           = FULLY_SPECIFIED),
                             !.con_id = concept_name[1].concept_id]
                    ELSE st
    IN IF Len(concept_name) = 0 THEN st
       ELSE [st1 EXCEPT !.at_lst_one = TRUE,
                        !.ids = SetItem(st1.ids, concept.id, st1.con_id)]

RECURSIVE match_names(_, _, _, _)
match_names(st, rows, concept, k) ==
    IF k > Len(concept.names) THEN st
    ELSE match_names(match_name(st, rows, concept, concept.names[k]),
                     rows, concept, k + 1)

\* the id of the Concept row to create, were it the row count plus one
new_concept_id_count(concept_table, con_id) ==
    Cardinality(DOMAIN concept_table) + 1

\* the id of the Concept row to create, were the foreign id always kept
new_concept_id_kept(concept_table, con_id) == con_id

\* lines 367-371: the id of the Concept row to create
new_concept_id(concept_table, con_id) ==
    IF con_id \in DOMAIN concept_table
    THEN Max(DOMAIN concept_table) + 1
    ELSE con_id

\* lines 373-376: the Concept row built from the record
concept_row(concept) ==
    [datatype |-> concept.datatype, concept_class |-> concept.concept_class,
     is_set |-> IF Has(concept.extras, "is_set") THEN concept.extras.is_set
                ELSE 0]

\* a test that finds no name tuple held
name_absent_always(rows, cname) == TRUE

\* a test that finds every name tuple held
name_absent_never(rows, cname) == FALSE

\* line 382: no row holds the name tuple
name_absent(rows, cname) == Len(filter_concept_name(rows, cname)) = 0

\* lines 379-388: insert the names that no row holds
RECURSIVE sync_names(_, _, _, _)
sync_names(d, cnames, k, con_id) ==
    IF k > Len(cnames) THEN [db |-> d, exc |-> ""]
    ELSE IF name_absent(d.concept_name, cnames[k])
         THEN IF con_id \notin DOMAIN d.concept
              THEN [db |-> d, exc |-> "DoesNotExist"]
              ELSE sync_names(
                       [d EXCEPT !.concept_name = Append(@,
                            [concept_id |-> con_id,
                             name |-> cnames[k].name,
                             concept_name_type |-> cnames[k].name_type,
                             locale |-> cnames[k].locale,
                             locale_preferred |-> cnames[k].locale_preferred,
                             voided |-> cnames[k].voided])],
                       cnames, k + 1, con_id)
         ELSE sync_names(d, cnames, k + 1, con_id)

\* line 396: no row holds (concept, description, uuid)
description_absent(rows, con_id, cdescription) ==
    ~\E i \in 1..Len(rows) : /\ rows[i].concept_id = con_id
                             /\ rows[i].description = cdescription.description
                             /\ rows[i].uuid = cdescription.external_id

\* lines 392-402
RECURSIVE sync_descriptions(_, _, _, _)
sync_descriptions(rows, cdescriptions, k, con_id) ==
    IF k > Len(cdescriptions) THEN rows
    ELSE sync_descriptions(
             IF description_absent(rows, con_id, cdescriptions[k])
             THEN Append(rows, [concept_id |-> con_id,
                                description |-> cdescriptions[k].description,
                                uuid |-> cdescriptions[k].external_id,
                                locale |-> cdescriptions[k].locale])
             ELSE rows,
             cdescriptions, k + 1, con_id)

\* line 411: the concept has no ConceptNumeric row
numeric_absent(rows, con_id) ==
    ~\E i \in 1..Len(rows) : rows[i].concept_id = con_id

\* extra[key] if the record gives it, else None (lines 412-429)
optional(extra, key) == IF Has(extra, key) THEN extra[key] ELSE -1

\* lines 404-434
sync_numeric(d, ids, concept, con_id) ==
    IF concept.datatype = "Numeric" /\ numeric_absent(d.concept_numeric, con_id)
    THEN IF ~Has(concept.extras, "units") \/ ~Has(concept.extras, "precise")
         THEN Result(d, ids, "KeyError")
         ELSE Result([d EXCEPT !.concept_numeric = Append(@,
                          [concept_id |-> con_id,
                           hi_normal |-> optional(concept.extras, "hi_normal"),
                           low_normal |-> optional(concept.extras, "low_normal"),
                           units |-> concept.extras.units,
                           precise |-> concept.extras.precise])],
                     ids, "")
    ELSE Result(d, ids, "")

\* lines 379-434, once con_id is settled
sync_attributes(d, ids, concept, con_id) ==
    LET named == sync_names(d, concept.names, 1, con_id)
    IN IF named.exc # "" THEN Result(named.db, ids, named.exc)
       ELSE IF con_id \notin DOMAIN named.db.concept
            THEN Result(named.db, ids, "DoesNotExist")
       ELSE IF ~Has(concept, "descriptions")
            THEN Result(named.db, ids, "KeyError")
       ELSE sync_numeric(
                [named.db EXCEPT !.concept_description =
                     sync_descriptions(@, concept.descriptions, 1, con_id)],
                ids, concept, con_id)

\* the creation of the Concept without its entry in concepts_id_added
create_concept_unrecorded(d, st, concept) ==
    IF st.at_lst_one THEN [db |-> d, st |-> st]
    ELSE LET con_id == new_concept_id(d.concept, st.con_id)
         IN [db |-> [d EXCEPT !.concept =
                         Save(@, con_id, concept_row(concept))],
             st |-> [st EXCEPT !.con_id = con_id]]

\* lines 365-377: create the Concept when no name matched
create_concept(d, st, concept) ==
    IF st.at_lst_one THEN [db |-> d, st |-> st]
    ELSE LET con_id == new_concept_id(d.concept, st.con_id)
         IN [db |-> [d EXCEPT !.concept =
                         Save(@, con_id, concept_row(concept))],
             st |-> [st EXCEPT !.con_id = con_id,
                               !.ids = SetItem(st.ids, concept.id, con_id)]]

\* lines 305-327: the class and the datatype, created when absent
sync_class(d, concept) ==
    [d EXCEPT !.concept_class = @ \cup {concept.concept_class}]

sync_datatype(d, concept) ==
    [d EXCEPT !.concept_datatype = @ \cup {concept.datatype}]

\* Command.sync_concept
sync_concept(d, ids, concept) ==
    IF ~Has(concept, "id") THEN Result(d, ids, "KeyError")
    ELSE IF ~Truthy(concept.id) THEN Result(d, ids, "")
    ELSE IF ~Has(concept, "concept_class") THEN Result(d, ids, "KeyError")
    ELSE IF ~Has(concept, "datatype")
         THEN Result(sync_class(d, concept), ids, "KeyError")
    ELSE LET d1 == sync_datatype(sync_class(d, concept), concept)
         IN IF ~Has(concept, "names") \/ ~Has(concept, "extras")
            THEN Result(d1, ids, "KeyError")
            ELSE LET st == match_names(
                               [con_id |-> concept.id, f_sp |-> FALSE,
                                at_lst_one |-> FALSE, ids |-> ids],
                               d1.concept_name, concept, 1)
                     made == create_concept(d1, st, concept)
                 IN sync_attributes(made.db, made.st.ids, concept,
                                    made.st.con_id)

(***************************************************************************)
(* The mapping resolvers.  The edge tables are keyed by their primary key. *)
(***************************************************************************)
MAP_TYPE_CONCEPT_SET == "CONCEPT-SET"

MAP_TYPE_Q_AND_A == "Q-AND-A"

\* OclOpenmrsHelper's directory of sources: OCL source id, OpenMRS name
SOURCE_DIRECTORY ==
    <<[ocl_id |-> <<"C", "I", "E", "L">>, omrs_id |-> "CIEL"],
      [ocl_id |-> <<"S", "N", "O", "M", "E", "D">>, omrs_id |-> "SNOMED CT"],
      [ocl_id |-> <<"I", "C", "D">>, omrs_id |-> "ICD-10-WHO"]>>

\* OclOpenmrsHelper.get_omrs_source_id_from_ocl_id; exc when the directory
\* has no such source
get_omrs_source_id_from_ocl_id(ocl_source_id) ==
    LET hits == {k \in 1..Len(SOURCE_DIRECTORY) :
                     SOURCE_DIRECTORY[k].ocl_id = ocl_source_id}
    IN IF hits = {}
       THEN [exc |-> "UnrecognizedSourceException", name |-> ""]
       ELSE [exc |-> "", name |-> SOURCE_DIRECTORY[Max(hits)].omrs_id]

\* list[-n]
FromEnd(list, n) == list[Len(list) - n + 1]

\* int(url.split('/')[-2]): the foreign concept id a concept path encodes
url_concept_id(url) ==
    LET list_concept_url == split(url, "/")
    IN IF Len(list_concept_url) < 2 THEN [exc |-> "IndexError", id |-> 0]
       ELSE IF ~IsInt(FromEnd(list_concept_url, 2))
            THEN [exc |-> "ValueError", id |-> 0]
       ELSE [exc |-> "", id |-> int(FromEnd(list_concept_url, 2))]

\* a lookup that falls back on the foreign id, as dict.get(key, key) would
lookup_or_self(ids, con_id) ==
    IF str(con_id) \in DOMAIN ids
    THEN [exc |-> "", id |-> ids[str(con_id)]]
    ELSE [exc |-> "", id |-> con_id]

\* int(self.concepts_id_added[str(con_id)])
lookup(ids, con_id) ==
    IF str(con_id) \in DOMAIN ids
    THEN [exc |-> "", id |-> ids[str(con_id)]]
    ELSE [exc |-> "KeyError", id |-> 0]

\* the first lines of each branch of sync_internal_mapping (486-491,
\* 519-524, 537-542): both endpoints, parsed and translated
resolve_endpoints(ids, i) ==
    LET from == url_concept_id(i.from_concept_url)
        to == url_concept_id(i.to_concept_url)
        new_from == lookup(ids, from.id)
        new_to == lookup(ids, to.id)
        error == IF from.exc # "" THEN from.exc
                 ELSE IF to.exc # "" THEN to.exc
                 ELSE IF new_from.exc # "" THEN new_from.exc
                 ELSE new_to.exc
    IN [exc |-> error, con_id |-> from.id, to_con_id |-> to.id,
        new_con_id |-> new_from.id, new_to_con_id |-> new_to.id]

\* Model.objects.all().aggregate(Max(pk))[...] + 1; exc when the table is
\* empty (None + 1)
next_id(table) ==
    IF DOMAIN table = {} THEN [exc |-> "TypeError", id |-> 0]
    ELSE [exc |-> "", id |-> Max(DOMAIN table) + 1]

\* a test that finds no edge, whatever the table holds
edge_absent_always(table, from_id, to_id) == TRUE

\* lines 494-495, 527-528: no edge joins the two concepts
edge_absent(table, from_id, to_id) ==
    ~\E pk \in DOMAIN table : table[pk].from = from_id /\ table[pk].to = to_id

\* an edge saved with the ids the key table gives, whether or not the
\* store holds their concepts
sync_edge_unchecked(d, ids, i, table) ==
    LET e == resolve_endpoints(ids, i)
        new_id == next_id(d[table])
    IN IF e.exc # "" THEN Result(d, ids, e.exc)
       ELSE IF ~edge_absent(d[table], e.new_con_id, e.new_to_con_id)
            THEN Result(d, ids, "")
       ELSE IF new_id.exc # "" THEN Result(d, ids, new_id.exc)
       ELSE Result([d EXCEPT ![table] =
                        Save(@, new_id.id, [from |-> e.new_con_id,
                                            to |-> e.new_to_con_id])],
                   ids, "")

\* lines 483-503 (concept_set) and 516-533 (concept_answer): an edge from
\* the source endpoint (owner, question) to the target endpoint (member,
\* answer)
sync_edge(d, ids, i, table) ==
    LET e == resolve_endpoints(ids, i)
        new_id == next_id(d[table])
    IN IF e.exc # "" THEN Result(d, ids, e.exc)
       ELSE IF e.new_con_id \notin DOMAIN d.concept
               \/ e.new_to_con_id \notin DOMAIN d.concept
            THEN Result(d, ids, "DoesNotExist")
       ELSE IF ~edge_absent(d[table], e.new_con_id, e.new_to_con_id)
            THEN Result(d, ids, "")
       ELSE IF new_id.exc # "" THEN Result(d, ids, new_id.exc)
       ELSE Result([d EXCEPT ![table] =
                        Save(@, new_id.id, [from |-> e.new_con_id,
                                            to |-> e.new_to_con_id])],
                   ids, "")

\* ConceptReferenceSource.objects.filter(name=): the primary keys of the
\* matching rows
filter_source(table, name) == {pk \in DOMAIN table : table[pk].name = name}

\* ConceptReferenceTerm.objects.get(code=, concept_source=): the primary
\* keys of the matching rows
term_ids(table, source, code) ==
    {pk \in DOMAIN table : table[pk].concept_source = source
                           /\ table[pk].code = code}

\* lines 560-562, 594-596: no map joins (term, concept, map type)
map_absent(table, term, concept, map_type) ==
    ~\E pk \in DOMAIN table : /\ table[pk].concept_reference_term = term
                              /\ table[pk].concept = concept
                              /\ table[pk].map_type = map_type

\* the term of (source, code), were it saved without its source row
get_or_create_term_unsourced(d, source, source_found, code) ==
    LET found == term_ids(d.concept_reference_term, source, code)
        new_term_id == next_id(d.concept_reference_term)
    IN IF Cardinality(found) > 1
       THEN [db |-> d, exc |-> "MultipleObjectsReturned", term |-> 0]
       ELSE IF Cardinality(found) = 1
            THEN [db |-> d, exc |-> "", term |-> Max(found)]
       ELSE IF new_term_id.exc # ""
            THEN [db |-> d, exc |-> new_term_id.exc, term |-> 0]
       ELSE [db |-> [d EXCEPT !.concept_reference_term =
                         Save(@, new_term_id.id,
                              [concept_source |-> source, code |-> code])],
             exc |-> "", term |-> new_term_id.id]

\* lines 549-559, 584-593: the term of (source, code), created when absent;
\* source_found is whether the source row the new term needs is at hand
get_or_create_term(d, source, source_found, code) ==
    LET found == term_ids(d.concept_reference_term, source, code)
        new_term_id == next_id(d.concept_reference_term)
    IN IF Cardinality(found) > 1
       THEN [db |-> d, exc |-> "MultipleObjectsReturned", term |-> 0]
       ELSE IF Cardinality(found) = 1
            THEN [db |-> d, exc |-> "", term |-> Max(found)]
       ELSE IF new_term_id.exc # ""
            THEN [db |-> d, exc |-> new_term_id.exc, term |-> 0]
       ELSE IF ~source_found
            THEN [db |-> d, exc |-> "IndexError", term |-> 0]
       ELSE [db |-> [d EXCEPT !.concept_reference_term =
                         Save(@, new_term_id.id,
                              [concept_source |-> source, code |-> code])],
             exc |-> "", term |-> new_term_id.id]

\* lines 534-568: any other map type
sync_reference_map(d, ids, i) ==
    LET e == resolve_endpoints(ids, i)
        list_concept_url == split(i.from_concept_url, "/")
        src == get_omrs_source_id_from_ocl_id(FromEnd(list_concept_url, 4))
        got == get_or_create_term(d, src.name, TRUE, str(e.to_con_id))
        new_map_id == next_id(got.db.concept_reference_map)
    IN IF e.exc # "" THEN Result(d, ids, e.exc)
       ELSE IF e.new_con_id \notin DOMAIN d.concept
            THEN Result(d, ids, "DoesNotExist")
       ELSE IF Len(list_concept_url) < 4 THEN Result(d, ids, "IndexError")
       ELSE IF src.exc # "" THEN Result(d, ids, src.exc)
       ELSE IF filter_source(d.concept_reference_source, src.name) = {}
            THEN Result(d, ids, "DoesNotExist")
       ELSE IF Cardinality(filter_source(d.concept_reference_source,
                                         src.name)) > 1
            THEN Result(d, ids, "MultipleObjectsReturned")
       ELSE IF got.exc # "" THEN Result(got.db, ids, got.exc)
       ELSE IF i.map_type \notin d.concept_map_type
            THEN Result(got.db, ids, "IndexError")
       ELSE IF ~map_absent(got.db.concept_reference_map, got.term,
                           e.new_con_id, i.map_type)
            THEN Result(got.db, ids, "")
       ELSE IF new_map_id.exc # "" THEN Result(got.db, ids, new_map_id.exc)
       ELSE Result([got.db EXCEPT !.concept_reference_map =
                        Save(@, new_map_id.id,
                             [concept_reference_term |-> got.term,
                              concept |-> e.new_con_id,
                              map_type |-> i.map_type])],
                   ids, "")

\* the body of the loop of Command.sync_internal_mapping
sync_internal_mapping(d, ids, i) ==
    IF i.map_type = MAP_TYPE_CONCEPT_SET THEN sync_edge(d, ids, i, "concept_set")
    ELSE IF i.map_type = MAP_TYPE_Q_AND_A
         THEN sync_edge(d, ids, i, "concept_answer")
    ELSE sync_reference_map(d, ids, i)

\* the body of the loop of Command.sync_external_mapping
sync_external_mapping(d, ids, i) ==
    LET from == url_concept_id(i.from_concept_url)
        list_source_url == split(i.to_source_url, "/")
        src == get_omrs_source_id_from_ocl_id(FromEnd(list_source_url, 2))
        new_con_id == lookup(ids, from.id)
        got == get_or_create_term(d, src.name,
                                  filter_source(d.concept_reference_source,
                                                src.name) # {},
                                  i.to_concept_code)
    IN IF ~Has(i, "to_concept_code") THEN Result(d, ids, "KeyError")
       ELSE IF from.exc # "" THEN Result(d, ids, from.exc)
       ELSE IF Len(list_source_url) < 2 THEN Result(d, ids, "IndexError")
       ELSE IF src.exc # "" THEN Result(d, ids, src.exc)
       ELSE IF new_con_id.exc # "" THEN Result(d, ids, new_con_id.exc)
       ELSE IF got.exc # "" THEN Result(got.db, ids, got.exc)
       ELSE IF new_con_id.id \notin DOMAIN d.concept
               \/ i.map_type \notin d.concept_map_type
            THEN Result(got.db, ids, "IndexError")
       ELSE IF ~map_absent(got.db.concept_reference_map, got.term,
                           new_con_id.id, i.map_type)
            THEN Result(got.db, ids, "")
       ELSE IF ~Has(i, "concept_map_id") THEN Result(got.db, ids, "KeyError")
       ELSE Result([got.db EXCEPT !.concept_reference_map =
                        Save(@, i.concept_map_id,
                             [concept_reference_term |-> got.term,
                              concept |-> new_con_id.id,
                              map_type |-> i.map_type])],
                   ids, "")

\* Command.segregate_mapping, which nothing calls: the records whose
\* source endpoint is the selected concept, and none when no concept is
\* selected
segregate_mapping(mappings, concept_id) ==
    IF concept_id # None
    THEN SelectSeq(mappings,
                   LAMBDA i : url_concept_id(i.from_concept_url).id
                                  = int(concept_id))
    ELSE <<>>

\* Command.generate_internal_mapping
generate_internal_mapping(mappings) ==
    SelectSeq(mappings, LAMBDA i : Has(i, "to_concept_url"))

\* Command.generate_external_mapping
generate_external_mapping(mappings) ==
    SelectSeq(mappings, LAMBDA i : Has(i, "to_source_url"))

(***************************************************************************)
(* The inputs: the records a concept file may hold.                        *)
(***************************************************************************)
Fever ==
    [name |-> "Fever", name_type |-> FULLY_SPECIFIED, locale |-> "en",
     locale_preferred |-> TRUE, voided |-> FALSE]

Pyrexia ==
    [name |-> "Pyrexia", name_type |-> "SHORT", locale |-> "en",
     locale_preferred |-> FALSE, voided |-> FALSE]

NameLists ==
    {<<>>, <<Fever>>, <<Pyrexia>>, <<Fever, Pyrexia>>, <<Pyrexia, Fever>>}

Descriptions ==
    <<[description |-> "Raised temperature", locale |-> "en",
       external_id |-> "d-1"],
      [description |-> "Raised temperature", locale |-> "en",
       external_id |-> "d-1"]>>

NumericExtras == [units |-> "C", precise |-> FALSE, hi_normal |-> 38]

TextExtras == [is_set |-> 0]

\* foreign concept 1 is numeric, every other foreign concept is text
ConceptRecord(i, n, extras) ==
    [id |-> i, concept_class |-> "Diagnosis",
     datatype |-> IF i = 1 THEN "Numeric" ELSE "Text",
     names |-> n, descriptions |-> Descriptions, extras |-> extras]

ForeignIds == {1, 2}

ConceptRecords ==
    {ConceptRecord(i, n, IF i = 1 THEN NumericExtras ELSE TextExtras) :
         i \in ForeignIds, n \in NameLists}
    \cup {\* a record whose id is zero
          ConceptRecord(0, <<Fever>>, TextExtras),
          \* a numeric record that gives no units
          ConceptRecord(1, <<Fever>>, [precise |-> FALSE]),
          \* a record that repeats a name
          ConceptRecord(2, <<Pyrexia, Pyrexia>>, TextExtras),
          \* a record with no id
          [concept_class |-> "Diagnosis", datatype |-> "Text",
           names |-> <<Fever>>, descriptions |-> Descriptions,
           extras |-> TextExtras]}

ConceptFiles == SeqsUpTo(ConceptRecords, MaxConcepts)

(***************************************************************************)
(* The stores an import may start from.  A row of concept_name,            *)
(* concept_description and concept_numeric references a row of concept.    *)
(***************************************************************************)
NameRow(con_id, cname) ==
    [concept_id |-> con_id, name |-> cname.name,
     concept_name_type |-> cname.name_type, locale |-> cname.locale,
     locale_preferred |-> cname.locale_preferred, voided |-> cname.voided]

NumericConcept == [datatype |-> "Numeric", concept_class |-> "Test", is_set |-> 0]

TextConcept == [datatype |-> "Text", concept_class |-> "Test", is_set |-> 0]

EmptyStore ==
    [concept |-> <<>>, concept_class |-> {}, concept_datatype |-> {},
     concept_name |-> <<>>, concept_description |-> <<>>,
     concept_numeric |-> <<>>, concept_set |-> <<>>, concept_answer |-> <<>>,
     concept_reference_source |-> <<>>, concept_reference_term |-> <<>>,
     concept_reference_map |-> <<>>, concept_map_type |-> {}]

\* a store with the concepts of ids and the name rows of names
ConceptStore(ids, names) ==
    [EmptyStore EXCEPT
        !.concept = [c \in ids |-> IF c = 1 THEN NumericConcept ELSE TextConcept],
        !.concept_class = IF ids = {} THEN {} ELSE {"Test"},
        !.concept_datatype = {IF c = 1 THEN "Numeric" ELSE "Text" : c \in ids},
        !.concept_name = names,
        !.concept_numeric =
            IF 1 \in ids
            THEN <<[concept_id |-> 1, hi_normal |-> -1, low_normal |-> -1,
                    units |-> "F", precise |-> TRUE]>>
            ELSE <<>>]

ConceptStores ==
    {ConceptStore({}, <<>>),
     ConceptStore({2}, <<>>),
     ConceptStore({2}, <<NameRow(2, Pyrexia)>>),
     ConceptStore({1, 2}, <<NameRow(1, Fever)>>),
     ConceptStore({1, 2}, <<NameRow(1, Fever), NameRow(2, Pyrexia)>>),
     ConceptStore({1, 2}, <<NameRow(1, Pyrexia), NameRow(2, Pyrexia)>>),
     ConceptStore({1, 2}, <<NameRow(1, Fever), NameRow(2, Fever)>>),
     ConceptStore({1, 3}, <<NameRow(3, Pyrexia), NameRow(1, Pyrexia)>>),
     ConceptStore({1, 2, 3}, <<NameRow(1, Fever), NameRow(2, Pyrexia),
                               NameRow(3, Pyrexia)>>)}

(***************************************************************************)
(* The records a mapping file may hold.                                    *)
(***************************************************************************)
RECURSIVE Path(_)
Path(segments) ==
    IF Len(segments) = 0 THEN <<"/">>
    ELSE <<"/">> \o Head(segments) \o Path(Tail(segments))

CIEL == <<"C", "I", "E", "L">>

SNOMED == <<"S", "N", "O", "M", "E", "D">>

ICD == <<"I", "C", "D">>

\* "/orgs/CIEL/sources/CIEL/concepts/<id>/"
ConceptUrl(id) ==
    Path(<<<<"o", "r", "g", "s">>, CIEL,
           <<"s", "o", "u", "r", "c", "e", "s">>, CIEL,
           <<"c", "o", "n", "c", "e", "p", "t", "s">>, str(id)>>)

\* "/orgs/CIEL/sources/<source>/"
SourceUrl(source) ==
    Path(<<<<"o", "r", "g", "s">>, CIEL,
           <<"s", "o", "u", "r", "c", "e", "s">>, source>>)

\* foreign concept 3 is in no key file
EndpointPairs == {<<1, 2>>, <<1, 1>>, <<1, 3>>, <<3, 1>>}

InternalRecord(from, to, map_type) ==
    [from_concept_url |-> ConceptUrl(from), to_concept_url |-> ConceptUrl(to),
     map_type |-> map_type, creator |-> 1, retired |-> FALSE]

ExternalRecord(from, source, code, concept_map_id) ==
    [from_concept_url |-> ConceptUrl(from), to_source_url |-> SourceUrl(source),
     to_concept_code |-> code, map_type |-> "SAME-AS",
     concept_map_id |-> concept_map_id, creator |-> 1, retired |-> FALSE]

InternalRecords ==
    {InternalRecord(e[1], e[2], t) :
         e \in EndpointPairs,
         t \in {MAP_TYPE_CONCEPT_SET, MAP_TYPE_Q_AND_A, "SAME-AS"}}
    \cup {\* a map type the store does not hold
          InternalRecord(1, 2, "NARROWER-THAN")}

ExternalRecords ==
    {ExternalRecord(1, SNOMED, <<"R", "5", "0">>, 1),
     ExternalRecord(1, SNOMED, <<"R", "5", "0">>, 2),
     ExternalRecord(1, SNOMED, <<"R", "5", "1">>, 1),
     \* a source the directory knows and the store does not hold
     ExternalRecord(1, ICD, <<"R", "5", "0">>, 1),
     ExternalRecord(3, SNOMED, <<"R", "5", "0">>, 1)}

\* a record that carries a target source with its code and a target
\* concept too, as an export that writes every key of a mapping does
BothShapesRecord ==
    [from_concept_url |-> ConceptUrl(1), to_source_url |-> SourceUrl(SNOMED),
     to_concept_code |-> <<"R", "5", "0">>, to_concept_url |-> ConceptUrl(2),
     map_type |-> "SAME-AS", concept_map_id |-> 2, creator |-> 1,
     retired |-> FALSE]

\* a record that carries neither a target source nor a target concept
NeitherShapeRecord ==
    [from_concept_url |-> ConceptUrl(1), map_type |-> "SAME-AS",
     creator |-> 1, retired |-> FALSE]

MappingRecords ==
    InternalRecords \cup ExternalRecords
        \cup {BothShapesRecord, NeitherShapeRecord}

MappingFiles == SeqsUpTo(MappingRecords, MaxMappings)

(***************************************************************************)
(* The stores and key files a mapping import may start from.  The rows of  *)
(* concept_set and concept_answer are [from, to]: owner and member,        *)
(* question and answer.                                                    *)
(***************************************************************************)
MappingStore(ids, sources, edges, terms, maps) ==
    [ConceptStore(ids, <<>>) EXCEPT
        !.concept_reference_source = sources,
        !.concept_map_type = {"SAME-AS"},
        !.concept_set = edges,
        !.concept_answer = edges,
        !.concept_reference_term = terms,
        !.concept_reference_map = maps]

\* rows that join concept 3, which no mapping record names
OtherEdge == 1 :> [from |-> 3, to |-> 1]

SameEdge == 1 :> [from |-> 1, to |-> 2]

OtherTerm == 1 :> [concept_source |-> "SNOMED CT", code |-> <<"R", "0">>]

OtherMap ==
    1 :> [concept_reference_term |-> 1, concept |-> 3, map_type |-> "SAME-AS"]

SourceRow(name, description, hl7_code, retired) ==
    [name |-> name, description |-> description, hl7_code |-> hl7_code,
     retired |-> retired]

Sources ==
    (1 :> SourceRow("CIEL", "Columbia International eHealth Laboratory",
                    "CIEL", 0))
        @@ (2 :> SourceRow("SNOMED CT", "SNOMED Clinical Terms", "SCT", 0))

MappingStores ==
    {MappingStore({1, 2}, Sources, <<>>, <<>>, <<>>),
     MappingStore({1, 2, 3}, Sources, OtherEdge, OtherTerm, OtherMap),
     MappingStore({1, 2}, Sources, SameEdge, OtherTerm, <<>>),
     \* concept 2 was deleted after the key files were written
     MappingStore({1, 3}, Sources, OtherEdge, OtherTerm, OtherMap)}

\* the hard-coded path sync_db writes the correspondence table to
KEYS_NEW == "keys_new.json"

Paths == {KEYS_NEW, "keys.json", "keys_old.json"}

\* the key files of earlier concept imports: in the second, two foreign
\* concepts were resolved to one local concept; in the third, each was
\* resolved by name to the concept that holds the other's id
KeyFiles ==
    [p \in Paths |->
        IF p = KEYS_NEW THEN (str(1) :> 1) @@ (str(2) :> 2)
        ELSE IF p = "keys.json" THEN (str(1) :> 1) @@ (str(2) :> 1)
        ELSE (str(1) :> 2) @@ (str(2) :> 1)]

NoKeyFiles == [p \in Paths |-> <<>>]

(***************************************************************************)
(* The command.                                                            *)
(***************************************************************************)
Options ==
    {o \in [concept : BOOLEAN, mapping : BOOLEAN,
            concept_id : {None, str(1), str(2)}, keys : Paths] :
        \* --keys is read with --mapping; --concept_id is read with
        \* --concept, and a mapping import ignores the id it is given
        /\ ~o.concept => o.concept_id \in {None, str(2)}
        /\ ~o.mapping => o.keys = KEYS_NEW}

Init ==
    /\ options \in Options
    /\ db \in IF options.concept THEN ConceptStores ELSE MappingStores
    /\ files = IF options.concept THEN NoKeyFiles ELSE KeyFiles
    /\ concepts_id_added = <<>>
    /\ concept_file = <<>>
    /\ mapping_file = <<>>
    /\ enumerator = <<>>
    /\ num = 0
    /\ pc = "handle"
    /\ exc = ""
    /\ before = [db |-> db, ids |-> <<>>]
    /\ first = db
    /\ runs = 1
    /\ source_file = <<>>
    /\ importers = <<>>

\* an exception that nothing catches ends the run where it is raised
Raise(e) == exc' = e /\ UNCHANGED pc

\* handle, lines 122-158: the options are validated and the concept file
\* is read
Handle ==
    /\ pc = "handle"
    /\ exc = ""
    /\ IF ~options.concept /\ ~options.mapping
       THEN Raise("CommandError") /\ UNCHANGED concept_file
       ELSE IF options.concept
            THEN /\ concept_file' \in ConceptFiles
                 /\ pc' = "sync_db"
                 /\ UNCHANGED exc
            ELSE /\ pc' = "keys"
                 /\ UNCHANGED <<exc, concept_file>>
    /\ UNCHANGED <<db, concepts_id_added, files, options, mapping_file,
                   enumerator, num, before, first, runs, source_file, importers>>

\* sync_db, lines 260-271: the records the concept loop will iterate over
concept_enumerator(concepts, concept_id) ==
    IF concept_id # None
    THEN LET hits == {i \in 1..Len(concepts) :
                          /\ Has(concepts[i], "id")
                          /\ IsInt(concept_id)
                          /\ concepts[i].id = int(concept_id)}
             noid == {i \in 1..Len(concepts) : ~Has(concepts[i], "id")}
             stop == IF hits = {} THEN Len(concepts) + 1
                     ELSE CHOOSE i \in hits : \A j \in hits : i <= j
         IN IF \E i \in noid : i < stop
            THEN [exc |-> "KeyError", list |-> <<>>]
            ELSE IF Len(concepts) > 0 /\ ~IsInt(concept_id)
                 THEN [exc |-> "ValueError", list |-> <<>>]
            ELSE IF hits = {}
                 THEN [exc |-> "UnboundLocalError", list |-> <<>>]
            ELSE [exc |-> "", list |-> <<concepts[stop]>>]
    ELSE [exc |-> "", list |-> concepts]

EnumerateConcepts ==
    /\ pc = "sync_db"
    /\ exc = ""
    /\ LET e == concept_enumerator(concept_file, options.concept_id)
       IN IF e.exc # ""
          THEN Raise(e.exc) /\ UNCHANGED enumerator
          ELSE enumerator' = e.list /\ pc' = "concepts" /\ UNCHANGED exc
    /\ UNCHANGED <<db, concepts_id_added, files, options, concept_file,
                   mapping_file, num, before, first, runs, source_file, importers>>

\* what one pass of a loop leaves: the handler's result, or the abort of
\* the run on its exception
Processed(r) ==
    /\ before' = [db |-> db, ids |-> concepts_id_added]
    /\ db' = r.db
    /\ concepts_id_added' = r.ids
    /\ num' = num + 1
    /\ exc' = r.exc
    /\ UNCHANGED <<pc, files, options, concept_file, mapping_file,
                   enumerator, first, runs, source_file, importers>>

\* sync_db, lines 273-274: one pass of the concept loop
SyncConcept ==
    /\ pc = "concepts"
    /\ exc = ""
    /\ num < Len(enumerator)
    /\ Processed(sync_concept(db, concepts_id_added, enumerator[num + 1]))

\* sync_db, lines 276-281: the correspondence table is written; with
\* --mapping the mapping branch then iterates over mappings=None
WriteKeys ==
    /\ pc = "concepts"
    /\ exc = ""
    /\ num = Len(enumerator)
    /\ files' = [files EXCEPT ![KEYS_NEW] = json_dump(concepts_id_added)]
    /\ IF options.mapping
       THEN pc' = "mappings" /\ exc' = "TypeError"
       ELSE pc' = "done" /\ UNCHANGED exc
    /\ UNCHANGED <<db, concepts_id_added, options, concept_file, mapping_file,
                   enumerator, num, before, first, runs, source_file, importers>>

\* handle, lines 160-166, and sync_db, lines 280-283: the key file and the
\* mapping file are read and the external mappings are selected
ReadKeys ==
    /\ pc = "keys"
    /\ exc = ""
    /\ concepts_id_added' = files[options.keys]
    /\ mapping_file' \in MappingFiles
    /\ enumerator' = generate_external_mapping(mapping_file')
    /\ num' = 0
    /\ pc' = "external"
    /\ UNCHANGED <<db, files, options, concept_file, exc, before,
                   first, runs, source_file, importers>>

\* one pass of the loop of sync_external_mapping
SyncExternalMapping ==
    /\ pc = "external"
    /\ exc = ""
    /\ num < Len(enumerator)
    /\ Processed(sync_external_mapping(db, concepts_id_added,
                                       enumerator[num + 1]))

\* sync_db, line 284: the internal mappings follow the external ones
StartInternal ==
    /\ pc = "external"
    /\ exc = ""
    /\ num = Len(enumerator)
    /\ enumerator' = generate_internal_mapping(mapping_file)
    /\ num' = 0
    /\ pc' = "internal"
    /\ UNCHANGED <<db, concepts_id_added, files, options, concept_file,
                   mapping_file, exc, before, first, runs, source_file, importers>>

\* one pass of the loop of sync_internal_mapping
SyncInternalMapping ==
    /\ pc = "internal"
    /\ exc = ""
    /\ num < Len(enumerator)
    /\ Processed(sync_internal_mapping(db, concepts_id_added,
                                       enumerator[num + 1]))

\* the internal loop ends and handle returns
Finish ==
    /\ pc = "internal"
    /\ exc = ""
    /\ num = Len(enumerator)
    /\ pc' = "done"
    /\ UNCHANGED <<db, concepts_id_added, files, options, concept_file,
                   mapping_file, enumerator, num, exc, before, first, runs, source_file, importers>>

Next ==
    \/ Handle
    \/ EnumerateConcepts
    \/ SyncConcept
    \/ WriteKeys
    \/ ReadKeys
    \/ SyncExternalMapping
    \/ StartInternal
    \/ SyncInternalMapping
    \/ Finish

Spec == Init /\ [][Next]_vars

(***************************************************************************)
(* The concept import interrupted and invoked again.  Every save() is      *)
(* committed on its own: the command opens no transaction.                 *)
(***************************************************************************)
\* sync_concept reads every key of the record without a KeyError
well_formed(concept) ==
    /\ \A key \in {"id", "concept_class", "datatype", "names", "extras",
                    "descriptions"} : Has(concept, key)
    /\ Truthy(concept.id)

\* the stores sync_concept passes through while it imports the record:
\* the store after each save() of lines 313, 325, 376, 388 and 402
saves(d, ids, concept) ==
    LET d1 == sync_class(d, concept)
        d2 == sync_datatype(d1, concept)
        st == match_names([con_id |-> concept.id, f_sp |-> FALSE,
                           at_lst_one |-> FALSE, ids |-> ids],
                          d2.concept_name, concept, 1)
        made == create_concept(d2, st, concept)
        con_id == made.st.con_id
        named(j) == sync_names(made.db, SubSeq(concept.names, 1, j), 1,
                               con_id)
        described(j) ==
            [named(Len(concept.names)).db EXCEPT !.concept_description =
                 sync_descriptions(@, SubSeq(concept.descriptions, 1, j), 1,
                                   con_id)]
    IN {d, d1, d2, made.db}
           \cup {named(j).db : j \in 0..Len(concept.names)}
           \cup IF named(Len(concept.names)).exc # "" THEN {}
                ELSE {described(j) : j \in 0..Len(concept.descriptions)}

\* the command is interrupted while the concept loop imports its next
\* record: the store keeps the rows saved so far
Interrupt ==
    /\ pc = "concepts"
    /\ exc = ""
    /\ num < Len(enumerator)
    /\ well_formed(enumerator[num + 1])
    /\ db' \in saves(db, concepts_id_added, enumerator[num + 1])
    /\ exc' = "KeyboardInterrupt"
    /\ UNCHANGED <<concepts_id_added, files, options, concept_file,
                   mapping_file, enumerator, num, pc, before, first, runs, source_file, importers>>

\* the concept import that ended on an exception is invoked again with
\* the same options on the same file: handle starts from an empty
\* correspondence table (line 155)
RunAgain ==
    /\ pc = "concepts"
    /\ exc # ""
    /\ runs < MaxRuns
    /\ runs' = runs + 1
    /\ concepts_id_added' = <<>>
    /\ enumerator' = <<>>
    /\ num' = 0
    /\ pc' = "sync_db"
    /\ exc' = ""
    /\ before' = [db |-> db, ids |-> <<>>]
    /\ UNCHANGED <<db, files, options, concept_file, mapping_file, first,
                   source_file, importers>>

InitResume == Init /\ options.concept /\ ~options.mapping

NextResume ==
    \/ Handle
    \/ EnumerateConcepts
    \/ SyncConcept
    \/ WriteKeys
    \/ Interrupt
    \/ RunAgain

SpecResume == InitResume /\ [][NextResume]_vars

(***************************************************************************)
(* The concept import invoked again for one concept.  The command that     *)
(* has returned is invoked on the same file and the store it left, with    *)
(* --concept_id set to one foreign id.                                     *)
(***************************************************************************)
\* handle, lines 115-155: the options of the new invocation are read
\* (--concept_id at line 130) and the correspondence table starts empty
\* (line 155)
Rerun ==
    /\ pc = "done"
    /\ exc = ""
    /\ runs < MaxRuns
    /\ \E id \in ForeignIds :
           options' = [options EXCEPT !.concept_id = str(id)]
    /\ runs' = runs + 1
    /\ concepts_id_added' = <<>>
    /\ enumerator' = <<>>
    /\ num' = 0
    /\ pc' = "sync_db"
    /\ before' = [db |-> db, ids |-> <<>>]
    /\ UNCHANGED <<db, files, concept_file, mapping_file, exc, first,
                   source_file, importers>>

NextRerun ==
    \/ Handle
    \/ EnumerateConcepts
    \/ SyncConcept
    \/ WriteKeys
    \/ Rerun

SpecRerun == InitResume /\ [][NextRerun]_vars

(***************************************************************************)
(* The sync_source management command: the import of reference sources     *)
(* into concept_reference_source.  One behaviour of SpecSource is one      *)
(* invocation of the command.                                              *)
(***************************************************************************)
MaxSources == 2       \* records in a source file

\* the primary key the table gives a row saved without one
auto_id(table) == IF DOMAIN table = {} THEN 1 ELSE Max(DOMAIN table) + 1

\* lines 186-188: the row built from the record
source_to_save(source) ==
    SourceRow(source.name, source.description, source.hl7_code,
              source.retired)

\* a sync that writes the record's fields over the row of its name
sync_source_db_overwrite(d, source) ==
    LET source_present == filter_source(d.concept_reference_source,
                                        source.name)
        pk == IF source_present = {} THEN auto_id(d.concept_reference_source)
              ELSE Max(source_present)
    IN IF \E key \in {"name", "description", "hl7_code", "extras", "retired"} :
              ~Has(source, key)
       THEN [db |-> d, exc |-> "KeyError"]
       ELSE [db |-> [d EXCEPT !.concept_reference_source =
                         Save(@, pk, source_to_save(source))],
             exc |-> ""]

\* Command.sync_source_db
sync_source_db(d, source) ==
    IF ~Has(source, "name") THEN [db |-> d, exc |-> "KeyError"]
    ELSE IF filter_source(d.concept_reference_source, source.name) # {}
         THEN [db |-> d, exc |-> ""]
    ELSE IF \E key \in {"description", "hl7_code", "extras", "retired"} :
                ~Has(source, key)
         THEN [db |-> d, exc |-> "KeyError"]
    ELSE IF ~Has(source.extras, "creator") THEN [db |-> d, exc |-> "KeyError"]
    ELSE [db |-> [d EXCEPT !.concept_reference_source =
                      Save(@, auto_id(@), source_to_save(source))],
          exc |-> ""]

\* sync_source, lines 167-175: the records the source loop will iterate
\* over
source_enumerator(records, source_id) ==
    IF source_id # None
    THEN LET hits == {i \in 1..Len(records) :
                          /\ Has(records[i], "concept_source_id")
                          /\ IsInt(source_id)
                          /\ records[i].concept_source_id = int(source_id)}
             noid == {i \in 1..Len(records) :
                          ~Has(records[i], "concept_source_id")}
             stop == IF hits = {} THEN Len(records) + 1
                     ELSE CHOOSE i \in hits : \A j \in hits : i <= j
         IN IF \E i \in noid : i < stop
            THEN [exc |-> "KeyError", list |-> <<>>]
            ELSE IF Len(records) > 0 /\ ~IsInt(source_id)
                 THEN [exc |-> "ValueError", list |-> <<>>]
            ELSE IF hits = {}
                 THEN [exc |-> "UnboundLocalError", list |-> <<>>]
            ELSE [exc |-> "", list |-> <<records[stop]>>]
    ELSE [exc |-> "", list |-> records]

\* the records a source file may hold
SourceRecord(id, name, description, hl7_code, retired) ==
    [concept_source_id |-> id, name |-> name, description |-> description,
     hl7_code |-> hl7_code, retired |-> retired, extras |-> [creator |-> 1]]

SourceRecords ==
    {\* the rows of Sources, as an export of the store writes them
     SourceRecord(1, "CIEL", "Columbia International eHealth Laboratory",
                  "CIEL", 0),
     SourceRecord(2, "SNOMED CT", "SNOMED Clinical Terms", "SCT", 0),
     \* the name of a row of Sources with other fields
     SourceRecord(1, "CIEL", "CIEL dictionary", "CL", 1),
     \* a source Sources does not hold, in two versions
     SourceRecord(3, "ICD-10-WHO", "ICD-10", "ICD10", 0),
     SourceRecord(3, "ICD-10-WHO", "ICD-10 WHO edition", "I10", 1),
     \* a record without its code
     [concept_source_id |-> 4, name |-> "LOINC", description |-> "LOINC",
      retired |-> 0, extras |-> [creator |-> 1]]}

SourceFiles == SeqsUpTo(SourceRecords, MaxSources)

\* the stores a source import may start from
SourceStores ==
    {EmptyStore, [EmptyStore EXCEPT !.concept_reference_source = Sources]}

\* source: whether --source_file is given
SourceOptions == [source : BOOLEAN, source_id : {None, str(1), str(3), str(5)}]

InitSource ==
    /\ options \in SourceOptions
    /\ db \in SourceStores
    /\ files = NoKeyFiles
    /\ concepts_id_added = <<>>
    /\ concept_file = <<>>
    /\ mapping_file = <<>>
    /\ enumerator = <<>>
    /\ num = 0
    /\ pc = "handle"
    /\ exc = ""
    /\ before = [db |-> db, ids |-> <<>>]
    /\ first = db
    /\ runs = 1
    /\ source_file = <<>>
    /\ importers = <<>>

\* handle, lines 77-99: the options are validated and the source file is
\* read
HandleSource ==
    /\ pc = "handle"
    /\ exc = ""
    /\ IF ~options.source
       THEN Raise("CommandError") /\ UNCHANGED source_file
       ELSE /\ source_file' \in SourceFiles
            /\ pc' = "sync_source"
            /\ UNCHANGED exc
    /\ UNCHANGED <<db, concepts_id_added, files, options, concept_file,
                   mapping_file, enumerator, num, before, first, runs,
                   importers>>

\* sync_source, lines 167-175
EnumerateSources ==
    /\ pc = "sync_source"
    /\ exc = ""
    /\ LET e == source_enumerator(source_file, options.source_id)
       IN IF e.exc # ""
          THEN Raise(e.exc) /\ UNCHANGED enumerator
          ELSE enumerator' = e.list /\ pc' = "sources" /\ UNCHANGED exc
    /\ UNCHANGED <<db, concepts_id_added, files, options, concept_file,
                   mapping_file, num, before, first, runs, source_file, importers>>

\* sync_source, lines 178-180: one pass of the source loop
SyncSourceDb ==
    /\ pc = "sources"
    /\ exc = ""
    /\ num < Len(enumerator)
    /\ LET r == sync_source_db(db, enumerator[num + 1])
       IN /\ before' = [db |-> db, ids |-> concepts_id_added]
          /\ db' = r.db
          /\ exc' = r.exc
    /\ num' = num + 1
    /\ UNCHANGED <<concepts_id_added, files, options, concept_file,
                   mapping_file, enumerator, pc, first, runs, source_file, importers>>

\* the source loop ends and handle returns
FinishSource ==
    /\ pc = "sources"
    /\ exc = ""
    /\ num = Len(enumerator)
    /\ pc' = "done"
    /\ UNCHANGED <<db, concepts_id_added, files, options, concept_file,
                   mapping_file, enumerator, num, exc, before, first, runs,
                   source_file, importers>>

NextSource ==
    \/ HandleSource
    \/ EnumerateSources
    \/ SyncSourceDb
    \/ FinishSource

SpecSource == InitSource /\ [][NextSource]_vars

(***************************************************************************)
(* Importers that run at once on one store.  Each importer is one process  *)
(* that runs a concept import of its concept file and then a mapping       *)
(* import of its mapping file, with its own correspondence table; the      *)
(* store and the key file of the hard-coded path are shared.  A step is    *)
(* the code between two database queries of a find-then-insert: the        *)
(* absence check, the computation of the next id, and the insert.          *)
(***************************************************************************)
MaxImporters == 2     \* importers on one store
MaxTasks == 2         \* records in each file of an importer

\* the records of the importers: two concepts without a name in the store,
\* whose foreign ids the store holds, and a set membership between them
ImporterConcepts ==
    {ConceptRecord(1, <<Fever>>, NumericExtras),
     ConceptRecord(2, <<Pyrexia>>, TextExtras)}

ImporterMappings == {InternalRecord(1, 2, MAP_TYPE_CONCEPT_SET)}

ImporterStore == MappingStore({1, 2, 3}, Sources, OtherEdge, OtherTerm, OtherMap)

\* an importer at the start of its concept import (handle, lines 154-158)
Importer(concepts, mappings) ==
    [pc |-> "concepts", concept_file |-> concepts, mapping_file |-> mappings,
     num |-> 0, concepts_id_added |-> <<>>, con_id |-> 0, e |-> <<>>,
     new_id |-> 0, exc |-> "", created |-> <<>>]

InitImporters ==
    /\ \E n \in 1..MaxImporters :
           importers \in [1..n ->
                             {Importer(c, m) :
                                  c \in SeqsUpTo(ImporterConcepts, MaxTasks),
                                  m \in SeqsUpTo(ImporterMappings, MaxTasks)}]
    /\ db = ImporterStore
    /\ files = NoKeyFiles
    /\ options = [concept |-> TRUE, mapping |-> TRUE, concept_id |-> None,
                  keys |-> KEYS_NEW]
    /\ concepts_id_added = <<>>
    /\ concept_file = <<>>
    /\ mapping_file = <<>>
    /\ enumerator = <<>>
    /\ num = 0
    /\ pc = "importers"
    /\ exc = ""
    /\ before = [db |-> db, ids |-> <<>>]
    /\ first = db
    /\ runs = 1
    /\ source_file = <<>>

\* what a step of one importer leaves alone
importer_frame ==
    <<concepts_id_added, options, concept_file, mapping_file, enumerator,
      num, pc, exc, before, first, runs, source_file>>

\* w is an importer, at position p, that has not failed
At(w, p) ==
    /\ w \in DOMAIN importers
    /\ importers[w].pc = p
    /\ importers[w].exc = ""

\* sync_concept, lines 299-364: the class and the datatype are saved and
\* the names of the next record are matched
MatchNames(w) ==
    LET me == importers[w]
        concept == me.concept_file[me.num + 1]
        d1 == sync_datatype(sync_class(db, concept), concept)
        st == match_names([con_id |-> concept.id, f_sp |-> FALSE,
                           at_lst_one |-> FALSE,
                           ids |-> me.concepts_id_added],
                          d1.concept_name, concept, 1)
    IN /\ At(w, "concepts")
       /\ me.num < Len(me.concept_file)
       /\ db' = d1
       /\ importers' = [importers EXCEPT ![w] =
              [me EXCEPT !.pc = IF st.at_lst_one THEN "attributes"
                                ELSE "concept_id",
                         !.con_id = st.con_id,
                         !.concepts_id_added = st.ids]]
       /\ UNCHANGED files
       /\ UNCHANGED importer_frame

\* sync_concept, lines 367-371: the id of the Concept to create
NewConceptId(w) ==
    LET me == importers[w]
    IN /\ At(w, "concept_id")
       /\ importers' = [importers EXCEPT ![w] =
              [me EXCEPT !.pc = "save_concept",
                         !.con_id = new_concept_id(db.concept, me.con_id)]]
       /\ UNCHANGED <<db, files>>
       /\ UNCHANGED importer_frame

\* sync_concept, lines 373-377: the Concept is saved under that id
SaveConcept(w) ==
    LET me == importers[w]
        concept == me.concept_file[me.num + 1]
    IN /\ At(w, "save_concept")
       /\ db' = [db EXCEPT !.concept =
                     Save(@, me.con_id, concept_row(concept))]
       /\ importers' = [importers EXCEPT ![w] =
              [me EXCEPT !.pc = "attributes",
                         !.concepts_id_added =
                             SetItem(@, concept.id, me.con_id),
                         !.created = Append(@, me.con_id)]]
       /\ UNCHANGED files
       /\ UNCHANGED importer_frame

\* sync_concept, lines 379-434: names, descriptions and numeric attributes
SyncAttributes(w) ==
    LET me == importers[w]
        concept == me.concept_file[me.num + 1]
        r == sync_attributes(db, me.concepts_id_added, concept, me.con_id)
    IN /\ At(w, "attributes")
       /\ db' = r.db
       /\ importers' = [importers EXCEPT ![w] =
              [me EXCEPT !.pc = "concepts", !.num = @ + 1, !.exc = r.exc]]
       /\ UNCHANGED files
       /\ UNCHANGED importer_frame

\* sync_db, lines 276-278: the importer writes its correspondence table
DumpKeys(w) ==
    LET me == importers[w]
    IN /\ At(w, "concepts")
       /\ me.num = Len(me.concept_file)
       /\ files' = [files EXCEPT
                        ![KEYS_NEW] = json_dump(me.concepts_id_added)]
       /\ importers' = [importers EXCEPT ![w] = [me EXCEPT !.pc = "keys"]]
       /\ UNCHANGED db
       /\ UNCHANGED importer_frame

\* handle, lines 160-166: the mapping import loads the key file
LoadKeys(w) ==
    LET me == importers[w]
    IN /\ At(w, "keys")
       /\ importers' = [importers EXCEPT ![w] =
              [me EXCEPT !.pc = "mappings", !.num = 0,
                         !.concepts_id_added = files[KEYS_NEW]]]
       /\ UNCHANGED <<db, files>>
       /\ UNCHANGED importer_frame

\* the edge table of a set membership or question/answer record
edge_table(i) ==
    IF i.map_type = MAP_TYPE_CONCEPT_SET THEN "concept_set"
    ELSE "concept_answer"

\* sync_internal_mapping, lines 484-495 and 517-528: the endpoints are
\* resolved and the edge is looked for
FindEdge(w) ==
    LET me == importers[w]
        i == me.mapping_file[me.num + 1]
        e == resolve_endpoints(me.concepts_id_added, i)
        error == IF e.exc # "" THEN e.exc
                 ELSE IF e.new_con_id \notin DOMAIN db.concept
                         \/ e.new_to_con_id \notin DOMAIN db.concept
                      THEN "DoesNotExist"
                 ELSE ""
    IN /\ At(w, "mappings")
       /\ me.num < Len(me.mapping_file)
       /\ importers' = [importers EXCEPT ![w] =
              IF error # "" THEN [me EXCEPT !.exc = error]
              ELSE IF edge_absent(db[edge_table(i)], e.new_con_id,
                                  e.new_to_con_id)
                   THEN [me EXCEPT !.pc = "edge_id", !.e = e]
              ELSE [me EXCEPT !.num = @ + 1]]
       /\ UNCHANGED <<db, files>>
       /\ UNCHANGED importer_frame

\* lines 496-497 and 529: the id of the edge to create
NewEdgeId(w) ==
    LET me == importers[w]
        i == me.mapping_file[me.num + 1]
        new_id == next_id(db[edge_table(i)])
    IN /\ At(w, "edge_id")
       /\ importers' = [importers EXCEPT ![w] =
              IF new_id.exc # "" THEN [me EXCEPT !.exc = new_id.exc]
              ELSE [me EXCEPT !.pc = "save_edge", !.new_id = new_id.id]]
       /\ UNCHANGED <<db, files>>
       /\ UNCHANGED importer_frame

\* lines 498-503 and 530-533: the edge is saved under that id
SaveEdge(w) ==
    LET me == importers[w]
        i == me.mapping_file[me.num + 1]
    IN /\ At(w, "save_edge")
       /\ db' = [db EXCEPT ![edge_table(i)] =
                     Save(@, me.new_id, [from |-> me.e.new_con_id,
                                         to |-> me.e.new_to_con_id])]
       /\ importers' = [importers EXCEPT ![w] =
              [me EXCEPT !.pc = "mappings", !.num = @ + 1]]
       /\ UNCHANGED files
       /\ UNCHANGED importer_frame

\* the mapping loop ends and handle returns
Return(w) ==
    LET me == importers[w]
    IN /\ At(w, "mappings")
       /\ me.num = Len(me.mapping_file)
       /\ importers' = [importers EXCEPT ![w] = [me EXCEPT !.pc = "done"]]
       /\ UNCHANGED <<db, files>>
       /\ UNCHANGED importer_frame

NextImporters ==
    \/ \E w \in 1..MaxImporters : MatchNames(w)
    \/ \E w \in 1..MaxImporters : NewConceptId(w)
    \/ \E w \in 1..MaxImporters : SaveConcept(w)
    \/ \E w \in 1..MaxImporters : SyncAttributes(w)
    \/ \E w \in 1..MaxImporters : DumpKeys(w)
    \/ \E w \in 1..MaxImporters : LoadKeys(w)
    \/ \E w \in 1..MaxImporters : FindEdge(w)
    \/ \E w \in 1..MaxImporters : NewEdgeId(w)
    \/ \E w \in 1..MaxImporters : SaveEdge(w)
    \/ \E w \in 1..MaxImporters : Return(w)

SpecImporters == InitImporters /\ [][NextImporters]_vars

(***************************************************************************)
(* What the properties below speak of.                                     *)
(***************************************************************************)
\* the record the running loop processed last
Rec == enumerator[num]

\* the concept loop has processed Rec (its exception, if any, is in exc)
ConceptDone == options.concept /\ pc = "concepts" /\ num >= 1

\* the concept loop has processed the same record twice in a row, and
\* both passes returned
ConceptTwice ==
    ConceptDone /\ num >= 2 /\ enumerator[num - 1] = Rec /\ exc = ""

\* a record with a foreign id
Identified(concept) == Has(concept, "id") /\ concept.id # 0

\* a row of concept_name holds the name tuple of cname
HoldsName(row, cname) ==
    /\ row.name = cname.name
    /\ row.concept_name_type = cname.name_type
    /\ row.locale = cname.locale
    /\ row.locale_preferred = cname.locale_preferred

\* the rows of concept_name that hold a name tuple of the record
MatchingRows(rows, concept) ==
    {i \in 1..Len(rows) :
        \E k \in 1..Len(concept.names) : HoldsName(rows[i], concept.names[k])}

\* the rows of concept_description that hold (concept, text, external id)
DescriptionRows(rows, con_id, cdescription) ==
    {i \in 1..Len(rows) : /\ rows[i].concept_id = con_id
                          /\ rows[i].description = cdescription.description
                          /\ rows[i].uuid = cdescription.external_id}

\* C1: importing the same concept record twice in a row records the same
\* local id both times, creates no second Concept row, adds no ConceptName
\* or ConceptDescription row, and every name tuple and every (concept,
\* text, external id) of the record is held by a row.
C1_ImportTwice ==
    (ConceptTwice /\ Identified(Rec)) =>
        /\ Rec.id \in DOMAIN before.ids
        /\ Rec.id \in DOMAIN concepts_id_added
        /\ concepts_id_added[Rec.id] = before.ids[Rec.id]
        /\ DOMAIN db.concept = DOMAIN before.db.concept
        /\ db.concept_name = before.db.concept_name
        /\ db.concept_description = before.db.concept_description
        /\ \A k \in 1..Len(Rec.names) :
               \E i \in 1..Len(db.concept_name) :
                   HoldsName(db.concept_name[i], Rec.names[k])
        /\ \A k \in 1..Len(Rec.descriptions) :
               DescriptionRows(db.concept_description,
                               concepts_id_added[Rec.id],
                               Rec.descriptions[k]) # {}

\* the concept import phase has finished: the key file is written
PhaseOneFinished == options.concept /\ pc \in {"done", "mappings"}

\* the foreign ids of the concept input
InputIds ==
    {concept_file[i].id :
        i \in {j \in 1..Len(concept_file) : Identified(concept_file[j])}}

\* foreign id f has its entry, in memory and in the key file, and the
\* entry's local id is a row of concept
HasEntry(f) ==
    /\ f \in DOMAIN concepts_id_added
    /\ concepts_id_added[f] \in DOMAIN db.concept
    /\ Cardinality({key \in DOMAIN files[KEYS_NEW] : key = str(f)}) = 1
    /\ files[KEYS_NEW][str(f)] = concepts_id_added[f]

\* C2 as stated: after the concept import phase, every foreign id of the
\* concept input has exactly one entry in the correspondence table, whose
\* local id is a Concept row of the store.
C2_EveryInputId == PhaseOneFinished => \A f \in InputIds : HasEntry(f)

\* C2, amended: the same of every foreign id of the input when no single
\* concept id is selected, and of the selected id when one is.
C2_EveryImportedId ==
    PhaseOneFinished =>
        \A f \in InputIds :
            (options.concept_id = None \/ options.concept_id = str(f))
                => HasEntry(f)

C2_Witness ==
    /\ PhaseOneFinished
    /\ options.concept_id = None
    /\ Cardinality(InputIds) = 2
    /\ \A f \in InputIds : HasEntry(f)
    /\ \E f \in InputIds : concepts_id_added[f] # f

\* a mapping loop has processed Rec (its exception, if any, is in exc)
MappingDone ==
    ~options.concept /\ pc \in {"external", "internal"} /\ num >= 1

InternalDone == MappingDone /\ pc = "internal"

ExternalDone == MappingDone /\ pc = "external"

\* the same mapping record was processed twice in a row, and both passes
\* returned
MappingTwice ==
    MappingDone /\ num >= 2 /\ enumerator[num - 1] = Rec /\ exc = ""

\* the foreign concept id a concept path of the inputs ends in
ForeignId(url) == url_concept_id(url).id

\* the key table holds foreign id f
Keyed(ids, f) == str(f) \in DOMAIN ids

\* the names the rows of concept_reference_source hold
SourceNames(d) ==
    {d.concept_reference_source[pk].name :
         pk \in DOMAIN d.concept_reference_source}

\* the OpenMRS name of the source a path names at list[-n]
SourceName(url, n) ==
    get_omrs_source_id_from_ocl_id(FromEnd(split(url, "/"), n)).name

\* nothing but an absent row of an edge table stands between the record
\* and its edge: its endpoints have entries whose concepts exist and
\* differ, its source is in the store and its map type is registered
Resolvable(i, d, ids, external) ==
    /\ Keyed(ids, ForeignId(i.from_concept_url))
    /\ ids[str(ForeignId(i.from_concept_url))] \in DOMAIN d.concept
    /\ IF external
       THEN /\ SourceName(i.to_source_url, 2) \in SourceNames(d)
            /\ i.map_type \in d.concept_map_type
       ELSE /\ Keyed(ids, ForeignId(i.to_concept_url))
            /\ ids[str(ForeignId(i.to_concept_url))] \in DOMAIN d.concept
            /\ ids[str(ForeignId(i.to_concept_url))]
                   # ids[str(ForeignId(i.from_concept_url))]
            /\ i.map_type \notin {MAP_TYPE_CONCEPT_SET, MAP_TYPE_Q_AND_A}
                   => /\ SourceName(i.from_concept_url, 4)
                             \in SourceNames(d)
                      /\ i.map_type \in d.concept_map_type

\* the rows of an edge table from one local concept to another
EdgeRows(table, from_id, to_id) ==
    {pk \in DOMAIN table : table[pk].from = from_id /\ table[pk].to = to_id}

\* the rows of concept_reference_map of (a term of (source, code), concept,
\* map type)
MapRows(d, source, code, con_id, map_type) ==
    {pk \in DOMAIN d.concept_reference_map :
        LET row == d.concept_reference_map[pk]
        IN /\ row.concept = con_id
           /\ row.map_type = map_type
           /\ row.concept_reference_term \in DOMAIN d.concept_reference_term
           /\ d.concept_reference_term[row.concept_reference_term]
                  .concept_source = source
           /\ d.concept_reference_term[row.concept_reference_term].code = code}

\* the edges the store holds for the key of mapping record i
EdgesOf(i, d, ids, external) ==
    LET from_id == ids[str(ForeignId(i.from_concept_url))]
    IN IF external
       THEN MapRows(d, SourceName(i.to_source_url, 2), i.to_concept_code,
                    from_id, i.map_type)
       ELSE LET to == ForeignId(i.to_concept_url)
            IN IF i.map_type = MAP_TYPE_CONCEPT_SET
               THEN EdgeRows(d.concept_set, from_id, ids[str(to)])
               ELSE IF i.map_type = MAP_TYPE_Q_AND_A
                    THEN EdgeRows(d.concept_answer, from_id, ids[str(to)])
               ELSE MapRows(d, SourceName(i.from_concept_url, 4), str(to),
                            from_id, i.map_type)

\* C3: importing the same mapping record twice leaves exactly one edge of
\* its kind for its key, and the second import adds nothing.
C3_EdgeIdempotence ==
    (MappingDone
        /\ Resolvable(Rec, before.db, before.ids, pc = "external")) =>
        /\ Cardinality(EdgesOf(Rec, db, concepts_id_added, pc = "external"))
               = 1
        /\ MappingTwice => db = before.db

\* both endpoints of an internal record resolve to one local concept
SelfMapping(i, ids) ==
    /\ Keyed(ids, ForeignId(i.from_concept_url))
    /\ Keyed(ids, ForeignId(i.to_concept_url))
    /\ ids[str(ForeignId(i.from_concept_url))]
           = ids[str(ForeignId(i.to_concept_url))]

\* C4: an internal mapping whose endpoints resolve to the same local id
\* creates no SetMembership, AnswerLink or ReferenceMap edge.
C4_SelfMappingSkipped ==
    (InternalDone /\ SelfMapping(Rec, before.ids)) =>
        /\ db.concept_set = before.db.concept_set
        /\ db.concept_answer = before.db.concept_answer
        /\ db.concept_reference_map = before.db.concept_reference_map

\* the record names a foreign concept id that the key table does not hold
MissingCorrespondence(i, ids, external) ==
    \/ ~Keyed(ids, ForeignId(i.from_concept_url))
    \/ ~external /\ ~Keyed(ids, ForeignId(i.to_concept_url))

\* C5: a mapping record that names a foreign concept id with no entry in
\* the correspondence table ends in the lookup's KeyError, and the store
\* is as it was before the record: no edge, no reference term.
C5_MissingCorrespondence ==
    (MappingDone /\ MissingCorrespondence(Rec, before.ids, pc = "external"))
        => exc = "KeyError" /\ db = before.db

C5_Witness ==
    /\ InternalDone
    /\ Rec.map_type = "SAME-AS"
    /\ Keyed(before.ids, ForeignId(Rec.from_concept_url))
    /\ ~Keyed(before.ids, ForeignId(Rec.to_concept_url))
    /\ before.db.concept_reference_term # <<>>
    /\ exc = "KeyError"
    /\ db = before.db

\* C6: when the processing of one record fails, every later record of the
\* batch is still processed: no run ends on an exception with records of
\* its loop, or of the loop that follows, unprocessed.
C6_BatchContinues ==
    (exc # "" /\ pc \in {"concepts", "external", "internal"}) =>
        /\ num = Len(enumerator)
        /\ pc = "external" => generate_internal_mapping(mapping_file) = <<>>

\* the ConceptNumeric rows of a concept
NumericRows(rows, con_id) == {i \in 1..Len(rows) : rows[i].concept_id = con_id}

\* C7: each concept has at most one NumericAttributes row, and a second
\* import of a numeric concept's record changes nothing in the table.
C7_NumericSingularity ==
    /\ \A c \in DOMAIN db.concept :
           Cardinality(NumericRows(db.concept_numeric, c)) <= 1
    /\ (ConceptTwice /\ Identified(Rec) /\ Rec.datatype = "Numeric")
           => db.concept_numeric = before.db.concept_numeric

\* C8: when a name of the record matches an existing ConceptName row, no
\* Concept row is created and the local id recorded for the record's
\* foreign id is that of a concept that owns a matching row.
C8_ReuseByName ==
    (ConceptDone /\ Identified(Rec)
        /\ MatchingRows(before.db.concept_name, Rec) # {}) =>
        /\ DOMAIN db.concept = DOMAIN before.db.concept
        /\ Rec.id \in DOMAIN concepts_id_added
        /\ \E i \in MatchingRows(before.db.concept_name, Rec) :
               before.db.concept_name[i].concept_id
                   = concepts_id_added[Rec.id]

C8_Witness ==
    /\ ConceptDone
    /\ Identified(Rec)
    /\ Cardinality({before.db.concept_name[i].concept_id :
                        i \in MatchingRows(before.db.concept_name, Rec)}) = 2
    /\ concepts_id_added[Rec.id] # Rec.id
    /\ DOMAIN db.concept = DOMAIN before.db.concept

\* the concept loop has processed a record none of whose names matched
NoNameMatched ==
    /\ ConceptDone
    /\ Identified(Rec)
    /\ MatchingRows(before.db.concept_name, Rec) = {}

C10_NoConceptOverwritten ==
    ConceptDone =>
        /\ \A c \in DOMAIN before.db.concept :
               c \in DOMAIN db.concept /\ db.concept[c] = before.db.concept[c]
        /\ NoNameMatched =>
               Cardinality(DOMAIN db.concept)
                   = Cardinality(DOMAIN before.db.concept) + 1

\* two records with one foreign id each created a Concept in one run
C10_Witness ==
    /\ NoNameMatched
    /\ num = 2
    /\ enumerator[1].id = Rec.id
    /\ before.ids # <<>>
    /\ before.ids[Rec.id] = Rec.id
    /\ concepts_id_added[Rec.id] # Rec.id
    /\ {Rec.id, concepts_id_added[Rec.id]} \subseteq DOMAIN db.concept

\* the shapes of a mapping record
ExternalShape(i) == Has(i, "to_source_url") /\ Has(i, "to_concept_code")

InternalShape(i) == Has(i, "to_concept_url")

\* C11: the external resolver processes only records that carry a target
\* source and a target code, and the internal resolver only records that
\* are not external and carry a target concept: no record is processed by
\* both.
C11_ClassifiedOnce ==
    /\ ExternalDone => ExternalShape(Rec)
    /\ InternalDone => ~ExternalShape(Rec) /\ InternalShape(Rec)

\* the mapping import has returned
MappingFinished == ~options.concept /\ pc = "done" /\ exc = ""

\* C12: a mapping record of neither shape is rejected: no mapping import
\* whose file holds such a record returns without an error.
C12_NeitherShapeRejected ==
    MappingFinished =>
        \A k \in 1..Len(mapping_file) :
            ExternalShape(mapping_file[k]) \/ InternalShape(mapping_file[k])

\* the local id the key table gives for the foreign id a path ends in
LocalId(url) == concepts_id_added[str(ForeignId(url))]

\* the internal resolver has imported Rec on the generic path, its
\* endpoints being in the key table with two different local concepts
GenericDone ==
    /\ InternalDone
    /\ exc = ""
    /\ Rec.map_type \notin {MAP_TYPE_CONCEPT_SET, MAP_TYPE_Q_AND_A}
    /\ Keyed(concepts_id_added, ForeignId(Rec.from_concept_url))
    /\ Keyed(concepts_id_added, ForeignId(Rec.to_concept_url))
    /\ LocalId(Rec.from_concept_url) # LocalId(Rec.to_concept_url)

\* C13: on the generic path the term's code is the local id of the target
\* endpoint, and a ReferenceMap row joins that term, under the source of
\* the source path, to the local concept of the source endpoint.
C13_TermCodeIsLocalId ==
    GenericDone =>
        MapRows(db, SourceName(Rec.from_concept_url, 4),
                str(LocalId(Rec.to_concept_url)),
                LocalId(Rec.from_concept_url), Rec.map_type) # {}

\* nothing but its map type can stand between internal record i and its
\* ReferenceMap row: its endpoints are in the key table, the concept of
\* its source endpoint and the source of its path are in the store, and
\* the term and map tables hold rows
TypeDecides(i, d, ids) ==
    /\ Keyed(ids, ForeignId(i.from_concept_url))
    /\ Keyed(ids, ForeignId(i.to_concept_url))
    /\ ids[str(ForeignId(i.from_concept_url))] \in DOMAIN d.concept
    /\ SourceName(i.from_concept_url, 4) \in SourceNames(d)
    /\ d.concept_reference_term # <<>>
    /\ d.concept_reference_map # <<>>

\* C14: an internal record of any map type other than set membership and
\* question/answer, also a type the store does not hold, is imported: a
\* ReferenceMap row of its map type joins a term to the local concept of
\* its source endpoint.
C14_AnyTypeAccepted ==
    (InternalDone
        /\ Rec.map_type \notin {MAP_TYPE_CONCEPT_SET, MAP_TYPE_Q_AND_A}
        /\ TypeDecides(Rec, before.db, before.ids)) =>
        /\ exc = ""
        /\ \E pk \in DOMAIN db.concept_reference_map :
               /\ db.concept_reference_map[pk].concept
                      = LocalId(Rec.from_concept_url)
               /\ db.concept_reference_map[pk].map_type = Rec.map_type

\* the store holds no source of the name the record's source path gives
SourceAbsent(i, d) ==
    SourceName(i.to_source_url, 2) \notin SourceNames(d)

CombinedRun == options.concept /\ options.mapping

\* C16: in a combined run no mapping record is processed before the key
\* table is complete and written, and once it is written the run goes on
\* to the mapping records: it does not end there on an error.
C16_MappingsFollowConcepts ==
    CombinedRun =>
        /\ pc \in {"external", "internal"} =>
               \A f \in InputIds : HasEntry(f)
        /\ PhaseOneFinished => exc = ""

\* the table a mapping import loads from the file the concept import wrote
WrittenTable == files[KEYS_NEW]

\* what the mapping resolvers get for the endpoint of a concept path that
\* ends in foreign id f, looked up in the loaded table
LookupOfPath(f) == lookup(WrittenTable, url_concept_id(ConceptUrl(f)).id)

\* C17: once the concept import has written the key table, the lookup of
\* the foreign id parsed from a concept path in the written table yields,
\* for every entry the import built, the entry's local id, and the written
\* table holds no key that the import did not build.
C17_RoundTrip ==
    PhaseOneFinished =>
        /\ \A f \in DOMAIN concepts_id_added :
               LookupOfPath(f) = [exc |-> "", id |-> concepts_id_added[f]]
        /\ \A key \in DOMAIN WrittenTable :
               \E f \in DOMAIN concepts_id_added : key = str(f)

C17_Witness ==
    /\ PhaseOneFinished
    /\ Cardinality(DOMAIN WrittenTable) = 2
    /\ \E f \in DOMAIN concepts_id_added :
           LookupOfPath(f).exc = "" /\ LookupOfPath(f).id # f

\* Command.sync_db, lines 273-274: the whole concept loop from record k on
RECURSIVE sync_concepts(_, _, _, _)
sync_concepts(d, ids, concepts, k) ==
    IF k > Len(concepts) THEN Result(d, ids, "")
    ELSE LET r == sync_concept(d, ids, concepts[k])
         IN IF r.exc # "" THEN r
            ELSE sync_concepts(r.db, r.ids, concepts, k + 1)

\* what one uninterrupted import of the records leaves of the store the
\* first invocation began with
Uninterrupted == sync_concepts(first, <<>>, enumerator, 1)

\* a concept import that was invoked again has finished
Resumed == options.concept /\ runs > 1 /\ pc = "done" /\ exc = ""

\* C18: when a concept import that was aborted is run again over the same
\* input (records that each have a name), the store it leaves is the store
\* that one uninterrupted run leaves.
C18_ResumeEqualsOneRun ==
    (Resumed
        /\ \A k \in 1..Len(enumerator) : Len(enumerator[k].names) > 0
        /\ Uninterrupted.exc = "") =>
        db = Uninterrupted.db

\* the internal resolver has processed Rec, a record of the map type whose
\* endpoints had entries for two different concepts of the store
EdgeDue(map_type) ==
    /\ InternalDone
    /\ Rec.map_type = map_type
    /\ Resolvable(Rec, before.db, before.ids, FALSE)

\* C19: after the import of a question/answer record whose endpoints have
\* the entries N and M, exactly one AnswerLink (N, M) exists, whatever the
\* store held before, and a second import of the record adds nothing.
C19_OneAnswerLink ==
    EdgeDue(MAP_TYPE_Q_AND_A) =>
        /\ Cardinality(EdgeRows(db.concept_answer,
                                LocalId(Rec.from_concept_url),
                                LocalId(Rec.to_concept_url))) = 1
        /\ MappingTwice => db.concept_answer = before.db.concept_answer

\* C20: after the import of a set membership record whose endpoints have
\* entries, a SetMembership row exists whose owner is the local concept of
\* the source endpoint and whose member is that of the target endpoint,
\* whatever the store held before.
C20_SetMembershipExists ==
    EdgeDue(MAP_TYPE_CONCEPT_SET) =>
        EdgeRows(db.concept_set, LocalId(Rec.from_concept_url),
                 LocalId(Rec.to_concept_url)) # {}

\* the source loop has processed Rec (its exception, if any, is in exc)
SourceDone == pc = "sources" /\ num >= 1

\* a record with every field of a source record
WellFormedSource(source) ==
    /\ \A key \in {"name", "description", "hl7_code", "retired", "extras"} :
           Has(source, key)
    /\ Has(source.extras, "creator")

\* the rows of the name in the table of sources
NamedRows(d, name) == filter_source(d.concept_reference_source, name)

\* C21: the sync of a source record whose name the store holds leaves the
\* store as it was, whatever the record's other fields are; the sync of a
\* record whose name is absent creates exactly one row, with the record's
\* fields, and keeps every other row; no two rows ever share a name.
C21_SourceUpsert ==
    /\ (SourceDone /\ WellFormedSource(Rec)) =>
           /\ exc = ""
           /\ IF NamedRows(before.db, Rec.name) # {}
              THEN db = before.db
              ELSE /\ \A pk \in DOMAIN before.db.concept_reference_source :
                          /\ pk \in DOMAIN db.concept_reference_source
                          /\ db.concept_reference_source[pk]
                                 = before.db.concept_reference_source[pk]
                   /\ Cardinality(DOMAIN db.concept_reference_source)
                          = Cardinality(
                                DOMAIN before.db.concept_reference_source) + 1
                   /\ \E pk \in NamedRows(db, Rec.name) :
                          db.concept_reference_source[pk] = source_to_save(Rec)
    /\ \A name \in SourceNames(db) : Cardinality(NamedRows(db, name)) = 1

\* a record created a row, and the next record, of the same name and other
\* fields, left it as it was
C21_Witness ==
    /\ SourceDone
    /\ num = 2
    /\ exc = ""
    /\ enumerator[1].name = Rec.name
    /\ enumerator[1] # Rec
    /\ WellFormedSource(Rec)
    /\ NamedRows(first, Rec.name) = {}
    /\ \E pk \in NamedRows(db, Rec.name) :
           db.concept_reference_source[pk] = source_to_save(enumerator[1])
    /\ db = before.db

\* the records of the concept file that have the selected foreign id
SelectedConcepts ==
    SelectSeq(concept_file,
              LAMBDA concept : options.concept_id = str(concept.id))

\* a concept import in single-id mode has read a file whose records all
\* have an id
SingleIdMode ==
    /\ options.concept
    /\ options.concept_id # None
    /\ pc # "handle"
    /\ \A k \in 1..Len(concept_file) : Has(concept_file[k], "id")

\* C22: in single-id mode the concept loop iterates over the records whose
\* foreign id is the selected id, all of them and no other, and the run
\* does not end on an exception where the records are selected, also when
\* no record has the selected id.
C22_SingleIdMode ==
    SingleIdMode =>
        /\ pc = "sync_db" => exc = ""
        /\ pc \in {"concepts", "done", "mappings"} =>
               enumerator = SelectedConcepts

\* the mapping records a mapping import is to process: with a selected
\* concept those whose source endpoint is that concept, else all
SelectedMappings ==
    IF options.concept_id = None THEN mapping_file
    ELSE segregate_mapping(mapping_file, options.concept_id)

\* C23: a mapping import with a selected foreign concept id processes only
\* the mapping records whose source endpoint is that id, and one with no
\* selected id processes every mapping record.
C23_SelectedMappings ==
    /\ (MappingDone /\ options.concept_id # None) =>
           str(ForeignId(Rec.from_concept_url)) = options.concept_id
    /\ (~options.concept /\ pc = "external") =>
           enumerator = generate_external_mapping(SelectedMappings)
    /\ (~options.concept /\ pc = "internal") =>
           enumerator = generate_internal_mapping(SelectedMappings)

\* a concept record without an id, without a name, or without a class or
\* a datatype
Malformed(concept) ==
    \/ ~Identified(concept)
    \/ ~Has(concept, "names")
    \/ ~Has(concept, "concept_class")
    \/ ~Has(concept, "datatype")
    \/ Len(concept.names) = 0

\* C24: a concept record that lacks an id, has no names, or lacks a class
\* or a datatype ends in an error, and the store and the correspondence
\* table are as they were before the record.
C24_MalformedRejected ==
    (ConceptDone /\ Malformed(Rec)) =>
        /\ exc # ""
        /\ db = before.db
        /\ concepts_id_added = before.ids

\* the rows of concept_numeric the import has created
CreatedNumericRows ==
    {i \in 1..Len(db.concept_numeric) : i > Len(first.concept_numeric)}

\* C25: every NumericAttributes row a concept import creates belongs to a
\* Concept whose stored datatype is numeric, also when the record was
\* resolved by a name match to an existing concept.
C25_NumericRowsOfNumericConcepts ==
    options.concept =>
        \A i \in CreatedNumericRows :
            /\ db.concept_numeric[i].concept_id \in DOMAIN db.concept
            /\ db.concept[db.concept_numeric[i].concept_id].datatype
                   = "Numeric"

\* the rows of a table that the latest record saved
SavedRows(table) ==
    {pk \in DOMAIN db[table] :
        \/ pk \notin DOMAIN before.db[table]
        \/ db[table][pk] # before.db[table][pk]}

\* the key table gave mapping record i a local id that is no row of concept
\* for an endpoint its edge would reference
StaleEndpoint(i, d, ids, external) ==
    /\ ~MissingCorrespondence(i, ids, external)
    /\ \/ ids[str(ForeignId(i.from_concept_url))] \notin DOMAIN d.concept
       \/ /\ ~external
          /\ i.map_type \in {MAP_TYPE_CONCEPT_SET, MAP_TYPE_Q_AND_A}
          /\ ids[str(ForeignId(i.to_concept_url))] \notin DOMAIN d.concept

\* C26: every SetMembership, AnswerLink and ReferenceMap row a mapping
\* record saves references Concept rows and a ReferenceTerm row of the
\* store, and a record whose endpoint the key table resolves to a concept
\* the store no longer holds saves no such row.
C26_EdgesReferenceRows ==
    MappingDone =>
        /\ \A table \in {"concept_set", "concept_answer"} :
               \A pk \in SavedRows(table) :
                   {db[table][pk].from, db[table][pk].to}
                       \subseteq DOMAIN db.concept
        /\ \A pk \in SavedRows("concept_reference_map") :
               /\ db.concept_reference_map[pk].concept \in DOMAIN db.concept
               /\ db.concept_reference_map[pk].concept_reference_term
                      \in DOMAIN db.concept_reference_term
        /\ StaleEndpoint(Rec, before.db, before.ids, pc = "external") =>
               /\ exc # ""
               /\ \A table \in {"concept_set", "concept_answer",
                                "concept_reference_map"} :
                      db[table] = before.db[table]

\* a set membership record whose target endpoint the key table resolves to
\* a concept that was deleted
C26_Witness ==
    /\ InternalDone
    /\ Rec.map_type = MAP_TYPE_CONCEPT_SET
    /\ StaleEndpoint(Rec, before.db, before.ids, FALSE)
    /\ LocalId(Rec.from_concept_url) \in DOMAIN db.concept
    /\ LocalId(Rec.to_concept_url) \notin DOMAIN db.concept
    /\ before.db.concept_set # <<>>
    /\ exc = "DoesNotExist"
    /\ db = before.db

\* C27: the name sync only inserts: every ConceptName row the store held
\* before the record is kept as it was, every row the record adds is a
\* name of the record under the concept the record was resolved to, and
\* every name tuple of an imported record is held by a row afterwards.
C27_NamesOnlyInserted ==
    ConceptDone =>
        /\ Len(db.concept_name) >= Len(before.db.concept_name)
        /\ \A i \in 1..Len(before.db.concept_name) :
               db.concept_name[i] = before.db.concept_name[i]
        /\ Identified(Rec) =>
               /\ \A i \in 1..Len(db.concept_name) :
                      i > Len(before.db.concept_name) =>
                          \E k \in 1..Len(Rec.names) :
                              db.concept_name[i]
                                  = NameRow(concepts_id_added[Rec.id],
                                            Rec.names[k])
               /\ \A k \in 1..Len(Rec.names) :
                      \E i \in 1..Len(db.concept_name) :
                          HoldsName(db.concept_name[i], Rec.names[k])

\* a record with two names, one held by a row and one inserted
C27_Witness ==
    /\ ConceptDone
    /\ Identified(Rec)
    /\ Len(Rec.names) = 2
    /\ Cardinality(MatchingRows(before.db.concept_name, Rec)) = 1
    /\ Len(db.concept_name) = Len(before.db.concept_name) + 1
    /\ concepts_id_added[Rec.id] # Rec.id

\* two rows of an edge table join one (owner, member) pair
DuplicateEdge(table) ==
    \E pk1, pk2 \in DOMAIN db[table] :
        pk1 # pk2 /\ db[table][pk1] = db[table][pk2]

\* two Concepts were saved under one local id: each save took the id for
\* the next free one
SameIdClaimed ==
    \E w1, w2 \in DOMAIN importers :
        \E k1 \in 1..Len(importers[w1].created),
           k2 \in 1..Len(importers[w2].created) :
            /\ <<w1, k1>> # <<w2, k2>>
            /\ importers[w1].created[k1] = importers[w2].created[k2]

\* C28: with a single importer on the store no edge table ever holds two
\* rows for one (owner, member) pair and no two Concepts are saved under
\* one local id; with two importers interleaved both happen (the state of
\* C28_Witness).
C28_SingleWriterSafe ==
    Cardinality(DOMAIN importers) = 1 =>
        /\ ~DuplicateEdge("concept_set")
        /\ ~DuplicateEdge("concept_answer")
        /\ ~SameIdClaimed

\* two importers have each passed both absence checks and inserted: two
\* set membership rows join one pair, and two Concepts were saved under
\* one id
C28_Witness ==
    /\ Cardinality(DOMAIN importers) = 2
    /\ \E pk1, pk2 \in DOMAIN db.concept_set :
           /\ pk1 # pk2
           /\ db.concept_set[pk1] = db.concept_set[pk2]
           /\ db.concept_set[pk1].from # db.concept_set[pk1].to
    /\ SameIdClaimed
    /\ \A w \in DOMAIN importers : At(w, "done")

\* C29: an external mapping record never modifies or replaces a
\* ReferenceMap row: every row the table held before the record is held
\* afterwards with the same term, concept and map type, whatever map id
\* the record carries.
C29_MapRowsKept ==
    ExternalDone =>
        \A pk \in DOMAIN before.db.concept_reference_map :
            /\ pk \in DOMAIN db.concept_reference_map
            /\ db.concept_reference_map[pk]
                   = before.db.concept_reference_map[pk]

\* C30: a mapping record whose processing fails leaves the store as it
\* was before the record: no ReferenceTerm row saved for it remains.
C30_FailureLeavesNoRow ==
    (MappingDone /\ exc # "") => db = before.db

\* the uniqueness key of a ConceptName row
NameTuple(row) ==
    <<row.name, row.concept_name_type, row.locale, row.locale_preferred>>

\* no two rows share a (text, name type, locale, locale preferred) tuple
UniqueNames(rows) ==
    \A i, j \in 1..Len(rows) :
        i # j => NameTuple(rows[i]) # NameTuple(rows[j])

\* C31: starting from a store in which no two ConceptName rows share a
\* (text, name type, locale, locale preferred) tuple, after any sequence
\* of concept imports, completed or aborted, of any records, no two
\* ConceptName rows share that tuple.
C31_NoDuplicateNames ==
    UniqueNames(first.concept_name) => UniqueNames(db.concept_name)

\* a file of a record that repeats a name and a record that shares it was
\* imported, aborted, and imported again: the name was inserted once
C31_Witness ==
    /\ UniqueNames(first.concept_name)
    /\ runs = 2
    /\ pc = "done"
    /\ exc = ""
    /\ Len(enumerator) = 2
    /\ Len(enumerator[1].names) = 2
    /\ enumerator[1].names[1] = enumerator[1].names[2]
    /\ enumerator[2].names = <<enumerator[1].names[1]>>
    /\ Len(db.concept_name) = Len(first.concept_name) + 1
    /\ UniqueNames(db.concept_name)

\* the positions of the record's names of type FULLY_SPECIFIED
FullySpecified(concept) ==
    {k \in 1..Len(concept.names) :
        concept.names[k].name_type = FULLY_SPECIFIED}

\* the rows of concept_name that hold the name tuple of cname
RowsOf(rows, cname) == {i \in 1..Len(rows) : HoldsName(rows[i], cname)}

\* C32: when exactly one name of a concept record is of type
\* FULLY_SPECIFIED and it matches exactly one existing row, the local id
\* recorded for the record is the concept of that row, whatever the
\* position of that name in the record's name list and whatever concepts
\* the record's other names match.
C32_FullySpecifiedDecides ==
    (ConceptDone /\ Identified(Rec)
        /\ Cardinality(FullySpecified(Rec)) = 1) =>
        \A k \in FullySpecified(Rec) :
            LET hits == RowsOf(before.db.concept_name, Rec.names[k])
            IN Cardinality(hits) = 1 =>
                   /\ Rec.id \in DOMAIN concepts_id_added
                   /\ \A i \in hits :
                          concepts_id_added[Rec.id]
                              = before.db.concept_name[i].concept_id

\* the fully specified name comes second and matches one row; the first
\* name matches rows of two other concepts
C32_Witness ==
    /\ ConceptDone
    /\ Identified(Rec)
    /\ Len(Rec.names) = 2
    /\ FullySpecified(Rec) = {2}
    /\ Cardinality(RowsOf(before.db.concept_name, Rec.names[2])) = 1
    /\ LET others == {before.db.concept_name[i].concept_id :
                          i \in RowsOf(before.db.concept_name, Rec.names[1])}
       IN /\ Cardinality(others) = 2
          /\ concepts_id_added[Rec.id] \notin others
    /\ \A i \in RowsOf(before.db.concept_name, Rec.names[2]) :
           concepts_id_added[Rec.id] = before.db.concept_name[i].concept_id
    /\ concepts_id_added[Rec.id] # Rec.id

\* the step in which a single-concept re-run writes the key file
RerunWritesKeys ==
    /\ runs > 1
    /\ options.concept_id # None
    /\ pc = "concepts"
    /\ pc' = "done"

\* C33: a single-concept re-run of the concept import keeps the persisted
\* correspondence table entries of the concepts imported by earlier runs:
\* the key file it writes maps every foreign id that the key file mapped
\* before to the same local id.
C33_RerunKeepsEntries ==
    [][RerunWritesKeys =>
          \A key \in DOMAIN files[KEYS_NEW] :
              /\ key \in DOMAIN files'[KEYS_NEW]
              /\ files'[KEYS_NEW][key] = files[KEYS_NEW][key]]_vars

====
